---- MODULE Spec2Model ----
(***************************************************************************)
(* A model of the MCP test servers of mcp-security-inspector:              *)
(*   test_mcp_server/combine_auth.py  bearer token + per-tool permissions  *)
(*   test_mcp_server/api_key.py       bearer token, one valid key          *)
(*   test-mcp-server.py               no authentication, get_docs tool     *)
(* Each is a Starlette application with a GET /sse route (handle_sse) and  *)
(* a POST /messages/ mount (SseServerTransport.handle_post_message).       *)
(*                                                                         *)
(* Strings are sequences of lexical chunks: a header "Bearer key1x" is     *)
(* <<"Bearer ", "key1", "x">>.  The chunk "Bearer " is the only place the  *)
(* seven characters of the scheme prefix occur, so str.startswith and      *)
(* str.split act on chunks exactly as they act on the characters.          *)
(***************************************************************************)
EXTENDS Integers, Sequences, FiniteSets, TLC

\* Total number of HTTP requests (GET /sse and POST /messages/) in a run.
MaxRequests == 3

-----------------------------------------------------------------------------
(* Strings *)

BearerPrefix == "Bearer "

\* request.headers.get("Authorization"): None when the header is absent.
NoHeader == [present |-> FALSE, text |-> <<>>]
Hdr(text) == [present |-> TRUE, text |-> text]

\* The Authorization headers of a GET /sse request to a server with
\* AuthMiddleware.  The two servers share the text of dispatch but for the
\* key test.  combine_auth.py is sent its three keys and one header of each
\* kind of rejection; api_key.py is sent its key and the variations of the
\* header's text: empty, the prefix alone, a key of the other server, the
\* key followed by more text.  Both are sent a header in which the prefix
\* occurs a second time; api_key.py, the cheaper to explore, also on POST.
AuthHeaders(srv) ==
    IF srv = "api_key"
    THEN { NoHeader,
           Hdr(<<>>),
           Hdr(<<"Basic ", "key1">>),
           Hdr(<<BearerPrefix>>),
           Hdr(<<BearerPrefix, "key1">>),
           Hdr(<<BearerPrefix, "key2">>),
           Hdr(<<BearerPrefix, "key1", "x">>),
           Hdr(<<BearerPrefix, "key1", BearerPrefix, "x">>) }
    ELSE { NoHeader,
           Hdr(<<"Basic ", "key1">>),
           Hdr(<<BearerPrefix, "key1">>),
           Hdr(<<BearerPrefix, "key2">>),
           Hdr(<<BearerPrefix, "key3">>),
           Hdr(<<BearerPrefix, "bad">>),
           Hdr(<<BearerPrefix, "key1", BearerPrefix, "x">>) }

\* The Authorization headers a POST /messages/ request is drawn from: none,
\* an unconfigured token, one valid token of the server and, for
\* api_key.py, another scheme.
PostHeaders(srv) ==
    IF srv = "api_key"
    THEN { NoHeader,
           Hdr(<<"Basic ", "key1">>),
           Hdr(<<BearerPrefix, "bad">>),
           Hdr(<<BearerPrefix, "key1">>) }
    ELSE { NoHeader,
           Hdr(<<BearerPrefix, "bad">>),
           Hdr(<<BearerPrefix, "key2">>) }

\* test-mcp-server.py reads no header: its requests are drawn with none.
Headers(srv) == IF srv = "docs" THEN {NoHeader} ELSE AuthHeaders(srv)
PostHeadersOf(srv) == IF srv = "docs" THEN {NoHeader} ELSE PostHeaders(srv)

\* str.startswith(prefix) for a one-chunk prefix.
startswith(s, prefix) == Len(s) >= 1 /\ s[1] = prefix

\* str.split(sep): the list of the pieces of s between the occurrences of sep.
RECURSIVE str_split(_, _)
str_split(s, sep) ==
    IF \E i \in 1..Len(s) : s[i] = sep
    THEN LET i == CHOOSE k \in 1..Len(s) :
                     s[k] = sep /\ \A j \in 1..(k - 1) : s[j] # sep
         IN  <<SubSeq(s, 1, i - 1)>> \o str_split(SubSeq(s, i + 1, Len(s)), sep)
    ELSE <<s>>

-----------------------------------------------------------------------------
(* Configuration *)

Servers == {"combine_auth", "api_key", "docs"}

\* API_KEY_PERMISSIONS as written in combine_auth.py.
ConfiguredPermissions ==
    (<<"key1">> :> {"add", "subtract"}) @@
    (<<"key2">> :> {"add"}) @@
    (<<"key3">> :> {"subtract"})

\* The functions decorated with @mcp.tool(), in source order.
DeclaredTools(srv) ==
    IF srv = "docs" THEN <<"get_docs", "add_two_numbers">>
    ELSE <<"add", "subtract">>

\* The required parameters of each tool function (its signature).
Signature(tool) ==
    IF tool = "get_docs" THEN {"query", "library"} ELSE {"a", "b"}

\* docs_urls of test-mcp-server.py, as library codes: 1 = "agno" (a key of
\* docs_urls), 0 = a library that is not a key.
docs_urls == {1}

VARIABLES
    phase,                \* "import" while the module body runs, then "serving"
    server,               \* which script is running
    tools,                \* the FastMCP tool registry
    API_KEY_PERMISSIONS,  \* the module-level permission table
    nreq,                 \* number of HTTP requests received
    http,                 \* per request: route, header, response, call_next
    request_context,      \* the ContextVar: its value in each request's context
    session,              \* per GET /sse request: the session's state
    streams,              \* per session: are its read and write stream open
    read_stream,          \* per session: call ids posted, not yet received
    write_stream,         \* per session: result envelopes delivered
    calls                 \* per POST request: the call and its dispatch

vars == <<phase, server, tools, API_KEY_PERMISSIONS, nreq, http,
          request_context, session, streams, read_stream, write_stream,
          calls>>

Ids == 1..MaxRequests

-----------------------------------------------------------------------------
(* Inputs of a tools/call request *)

\* The tools/call messages a client posts: <<tool name, arguments>>, the
\* arguments a JSON object as a function from field names to numbers.
\* "multiply" is no tool of any server; library 1 is "agno", 0 is unknown.
CallInputs(srv) ==
    IF srv = "docs"
    THEN { <<"get_docs", ("query" :> 1) @@ ("library" :> 1)>>,
           <<"get_docs", ("query" :> 1) @@ ("library" :> 0)>>,
           <<"get_docs", ("query" :> 1)>>,
           <<"add_two_numbers", ("a" :> 2) @@ ("b" :> 1)>>,
           <<"multiply", ("a" :> 2) @@ ("b" :> 1)>> }
    ELSE IF srv = "api_key"
    THEN { <<"add", ("a" :> 2) @@ ("b" :> 1)>> }
    ELSE { <<"add", ("a" :> 2) @@ ("b" :> 1)>>,
           <<"subtract", ("a" :> 2) @@ ("b" :> 1)>>,
           <<"multiply", ("a" :> 2) @@ ("b" :> 1)>>,
           <<"add", ("a" :> 2)>> }

\* The JSON-RPC requests a client posts: <<method, tool name, arguments>>.
\* tools/list is posted to the server whose tools have permission checks.
Messages(srv) ==
    { <<"tools/call", m[1], m[2]>> : m \in CallInputs(srv) }
      \cup (IF srv = "combine_auth" THEN { <<"tools/list", "", <<>>>> } ELSE {})

\* The POST requests a client sends: <<Authorization header, message>>.
\* Every message is posted with every header of PostHeadersOf; to
\* combine_auth.py the subtract call is also posted with a second valid
\* token, key3, which unlike key2 is permitted subtract; and to api_key.py
\* the add call is also posted with a header in which the scheme prefix
\* occurs again after the key.
PostInputs(srv) ==
    (PostHeadersOf(srv) \X Messages(srv))
      \cup (IF srv = "combine_auth"
            THEN { <<Hdr(<<BearerPrefix, "key3">>),
                     <<"tools/call", "subtract", ("a" :> 2) @@ ("b" :> 1)>>>> }
            ELSE {})
      \cup (IF srv = "api_key"
            THEN { <<Hdr(<<BearerPrefix, "key1", BearerPrefix, "x">>),
                     <<"tools/call", "add", ("a" :> 2) @@ ("b" :> 1)>>>> }
            ELSE {})

\* What search_web can do: -1 = raise_for_status raises, otherwise the
\* number of organic results.
SearchOutcomes == {-1, 0, 2}

NoToken == <<>>
\* A result: the value of a tool call, the field an error names, the tool
\* names of a tools/list result.
NoOutcome == [kind |-> "none", value |-> 0, field |-> "", tools |-> {}]
Success(v) == [kind |-> "Success", value |-> v, field |-> "", tools |-> {}]
Failure(kind, field) ==
    [kind |-> kind, value |-> 0, field |-> field, tools |-> {}]
ListToolsResult(names) ==
    [kind |-> "Success", value |-> 0, field |-> "", tools |-> names]

NoRequest ==
    [route |-> "none", header |-> NoHeader, status |-> 0, body |-> "",
     next |-> FALSE]
NoCall ==
    [sid |-> 0, method |-> "", name |-> "", args |-> <<>>, bound |-> <<>>,
     pc |-> "none",
     outcome |-> NoOutcome, seen |-> NoToken, stages |-> <<>>]
NoStreams == [read |-> FALSE, write |-> FALSE]
Unbound == [bound |-> FALSE, auth_token |-> NoToken]

-----------------------------------------------------------------------------
(* AuthMiddleware *)

\* A middleware that rejects only an absent or empty header as Unauthorized
\* and takes the last piece of the split as the token.
AuthMiddleware_dispatch_noscheme(srv, table, auth_header) ==
    IF srv = "docs"
    THEN [pass |-> TRUE, status |-> 0, body |-> "", token |-> NoToken]
    ELSE IF ~auth_header.present \/ auth_header.text = <<>>
    THEN [pass |-> FALSE, status |-> 401, body |-> "Unauthorized",
          token |-> NoToken]
    ELSE LET pieces == str_split(auth_header.text, BearerPrefix)
             token == pieces[Len(pieces)]
         IN  IF ~(IF srv = "api_key" THEN token = <<"key1">>
                  ELSE token \in DOMAIN table)
             THEN [pass |-> FALSE, status |-> 401, body |-> "Invalid API key",
                   token |-> NoToken]
             ELSE [pass |-> TRUE, status |-> 0, body |-> "", token |-> token]

\* The key test of the middleware: membership in the table (combine_auth.py)
\* or equality with valid_api_key (api_key.py).
ValidApiKey(srv, table, token) ==
    IF srv = "api_key" THEN token = <<"key1">> ELSE token \in DOMAIN table

\* AuthMiddleware.dispatch up to call_next: the response it returns itself
\* (pass = FALSE), or the token it extracted (pass = TRUE).  test-mcp-server.py
\* installs no middleware: every request passes and no token is extracted.
AuthMiddleware_dispatch(srv, table, auth_header) ==
    IF srv = "docs"
    THEN [pass |-> TRUE, status |-> 0, body |-> "", token |-> NoToken]
    ELSE IF \/ ~auth_header.present
            \/ auth_header.text = <<>>
            \/ ~startswith(auth_header.text, BearerPrefix)
    THEN [pass |-> FALSE, status |-> 401, body |-> "Unauthorized",
          token |-> NoToken]
    ELSE LET token == str_split(auth_header.text, BearerPrefix)[2]
         IN  IF ~ValidApiKey(srv, table, token)
             THEN [pass |-> FALSE, status |-> 401, body |-> "Invalid API key",
                   token |-> NoToken]
             ELSE [pass |-> TRUE, status |-> 0, body |-> "", token |-> token]

\* A process-wide variable in place of the ContextVar: set for every context.
request_context_set_global(srv, ctx, r, token) ==
    IF srv = "combine_auth"
    THEN [x \in DOMAIN ctx |-> [bound |-> TRUE, auth_token |-> token]]
    ELSE ctx

\* request_context.set({"auth_token": token}) executed in the context of
\* request r: a ContextVar is set in the current context only, and every
\* HTTP request runs in its own copy of the (unset) root context.
\* Only combine_auth.py has the variable.
request_context_set(srv, ctx, r, token) ==
    IF srv = "combine_auth"
    THEN [ctx EXCEPT ![r] = [bound |-> TRUE, auth_token |-> token]]
    ELSE ctx

-----------------------------------------------------------------------------
(* Startup *)

Init ==
    /\ phase = "import"
    /\ server \in Servers
    /\ tools = {}
    /\ API_KEY_PERMISSIONS =
           IF server = "combine_auth" THEN ConfiguredPermissions ELSE <<>>
    /\ nreq = 0
    /\ http = [r \in Ids |-> NoRequest]
    /\ request_context = [r \in Ids |-> Unbound]
    /\ session = [r \in Ids |-> "None"]
    /\ streams = [r \in Ids |-> NoStreams]
    /\ read_stream = [r \in Ids |-> <<>>]
    /\ write_stream = [r \in Ids |-> <<>>]
    /\ calls = [r \in Ids |-> NoCall]

\* @mcp.tool(): the next decorated function is added to the registry.
mcp_tool ==
    /\ phase = "import"
    /\ Cardinality(tools) < Len(DeclaredTools(server))
    /\ tools' = tools \cup {DeclaredTools(server)[Cardinality(tools) + 1]}
    /\ UNCHANGED <<phase, server, API_KEY_PERMISSIONS, nreq, http,
                   request_context, session, streams, read_stream, write_stream,
                   calls>>

\* A script that starts the server above the tool definitions: uvicorn.run
\* is reached whatever has been registered so far.
uvicorn_run_early ==
    /\ phase = "import"
    /\ phase' = "serving"
    /\ UNCHANGED <<server, tools, API_KEY_PERMISSIONS, nreq, http,
                   request_context, session, streams, read_stream,
                   write_stream, calls>>

\* __main__: create_starlette_app and uvicorn.run, after the module body.
uvicorn_run ==
    /\ phase = "import"
    /\ Cardinality(tools) = Len(DeclaredTools(server))
    /\ phase' = "serving"
    /\ UNCHANGED <<server, tools, API_KEY_PERMISSIONS, nreq, http,
                   request_context, session, streams, read_stream,
                   write_stream, calls>>

-----------------------------------------------------------------------------
(* GET /sse *)

\* A client opens the event stream endpoint with the header auth_header.
\* The middleware runs without suspending, so the handshakes of two clients
\* never overlap: one request is between arrival and middleware at a time.
Connect(auth_header) ==
    /\ phase = "serving"
    /\ nreq < MaxRequests
    /\ \A x \in Ids : session[x] # "Connecting"
    /\ nreq' = nreq + 1
    /\ http' = [http EXCEPT ![nreq + 1] =
                   [NoRequest EXCEPT !.route = "sse", !.header = auth_header]]
    /\ session' = [session EXCEPT ![nreq + 1] = "Connecting"]
    /\ UNCHANGED <<phase, server, tools, API_KEY_PERMISSIONS, request_context,
                   streams, read_stream, write_stream, calls>>

\* A handshake without the middleware in front of handle_sse: the streams
\* are opened whatever the header.
Handshake_open(r) ==
    /\ session[r] = "Connecting"
    /\ http' = [http EXCEPT ![r].next = TRUE, ![r].status = 200]
    /\ session' = [session EXCEPT ![r] = "Active"]
    /\ streams' = [streams EXCEPT ![r] = [read |-> TRUE, write |-> TRUE]]
    /\ UNCHANGED <<phase, server, tools, API_KEY_PERMISSIONS, nreq,
                   request_context, read_stream, write_stream, calls>>

\* The request runs through AuthMiddleware.dispatch and, when that calls
\* call_next, into handle_sse: connect_sse opens the two streams and
\* mcp_server.run starts serving them.
Handshake(r) ==
    /\ session[r] = "Connecting"
    /\ UNCHANGED <<read_stream, write_stream, calls>>
    /\ LET a == AuthMiddleware_dispatch(server, API_KEY_PERMISSIONS,
                                        http[r].header)
       IN  IF a.pass
           THEN /\ request_context' =
                       request_context_set(server, request_context, r, a.token)
                /\ http' = [http EXCEPT ![r].next = TRUE, ![r].status = 200]
                /\ session' = [session EXCEPT ![r] = "Active"]
                /\ streams' = [streams EXCEPT ![r] =
                       [read |-> TRUE, write |-> TRUE]]
           ELSE /\ http' = [http EXCEPT ![r].status = a.status,
                                        ![r].body = a.body]
                /\ session' = [session EXCEPT ![r] = "Closed"]
                /\ UNCHANGED <<request_context, streams>>
    /\ UNCHANGED <<phase, server, tools, API_KEY_PERMISSIONS, nreq>>

-----------------------------------------------------------------------------
(* POST /messages/ *)

\* A client posts a tools/call or tools/list message addressed to session
\* sid, an established one: the session id a POST names is one connect_sse
\* made and sent to the client, and a rejected handshake gets none.  The request
\* runs through AuthMiddleware.dispatch and, when that calls call_next, into
\* sse.handle_post_message, which answers 404 unless sid is a connected
\* session, and otherwise answers 202 and sends the message to the session's
\* read stream.  The JSON-RPC id of the message is the request's number.
PostMessage(auth_header, sid, method, name, arguments) ==
    /\ phase = "serving"
    /\ nreq < MaxRequests
    /\ session[sid] \in {"Active", "Closing", "Closed"} /\ http[sid].next
    /\ nreq' = nreq + 1
    /\ LET r == nreq + 1
           a == AuthMiddleware_dispatch(server, API_KEY_PERMISSIONS, auth_header)
           q == [NoRequest EXCEPT !.route = "post", !.header = auth_header]
           c == [NoCall EXCEPT !.sid = sid, !.method = method, !.name = name,
                               !.args = arguments]
       IN  IF ~a.pass
           THEN /\ http' = [http EXCEPT ![r] =
                       [q EXCEPT !.status = a.status, !.body = a.body]]
                /\ calls' = [calls EXCEPT ![r] =
                       [NoCall EXCEPT !.sid = sid, !.pc = "rejected"]]
                /\ UNCHANGED <<request_context, read_stream>>
           ELSE /\ request_context' =
                       request_context_set(server, request_context, r, a.token)
                /\ IF session[sid] = "Active"
                   THEN /\ http' = [http EXCEPT ![r] =
                               [q EXCEPT !.next = TRUE, !.status = 202,
                                         !.body = "Accepted"]]
                        /\ calls' = [calls EXCEPT ![r] =
                               [c EXCEPT !.pc = "queued"]]
                        /\ read_stream' = [read_stream EXCEPT ![sid] =
                               Append(@, r)]
                   ELSE /\ http' = [http EXCEPT ![r] =
                               [q EXCEPT !.next = TRUE, !.status = 404,
                                         !.body = "Could not find session"]]
                        /\ calls' = [calls EXCEPT ![r] =
                               [NoCall EXCEPT !.sid = sid, !.pc = "rejected"]]
                        /\ UNCHANGED read_stream
    /\ UNCHANGED <<phase, server, tools, API_KEY_PERMISSIONS, session,
                   streams, write_stream>>

-----------------------------------------------------------------------------
(* mcp_server.run: one task per received message *)

\* Tool functions that run in the context of the POST request that carried
\* the message.
HandlerContext_post(c) == c

\* The context a tool function runs in.  handle_sse awaits mcp_server.run
\* inside the GET /sse request's task, and the tasks run starts inherit a
\* copy of that task's context: the handler of a call on session sid reads
\* the ContextVar in the context of request sid.
HandlerContext(c) == calls[c].sid

\* A permission check that allows every tool to a token with any permission.
check_permissions_nonempty(ctx, table, tool_name) ==
    IF ~ctx.bound THEN "LookupError"
    ELSE LET auth_token == ctx.auth_token
             permissions == IF auth_token \in DOMAIN table
                            THEN table[auth_token] ELSE {}
         IN  IF permissions = {} THEN "ValueError" ELSE "True"

\* A permission check that fails open: with no context bound, or with a
\* token that has no entry in the table, it lets the call through.
check_permissions_failopen(ctx, table, tool_name) ==
    IF ~ctx.bound THEN "True"
    ELSE LET auth_token == ctx.auth_token
         IN  IF auth_token \notin DOMAIN table THEN "True"
             ELSE IF tool_name \notin table[auth_token] THEN "ValueError"
             ELSE "True"

\* check_permissions(tool_name), evaluated in the context value ctx.
check_permissions(ctx, table, tool_name) ==
    IF ~ctx.bound THEN "LookupError"
    ELSE LET auth_token == ctx.auth_token
             permissions == IF auth_token \in DOMAIN table
                            THEN table[auth_token] ELSE {}
         IN  IF tool_name \notin permissions THEN "ValueError" ELSE "True"

\* The body of a tool function after its permission check; env is what
\* search_web does (get_docs only).
ToolBody(name, args, env) ==
    CASE name = "add" -> Success(args["a"] + args["b"])
      [] name = "subtract" -> Success(args["a"] - args["b"])
      [] name = "add_two_numbers" -> Success(args["a"] + args["b"])
      [] name = "get_docs" ->
            IF args["library"] \notin docs_urls
            THEN Failure("HandlerFailure", "")
            ELSE IF env = -1 THEN Failure("HandlerFailure", "")
            ELSE Success(env)

\* A dispatcher that answers an unknown tool like a forbidden one.
call_tool_hide_existence(registry, c) ==
    IF c.name \notin registry
    THEN [c EXCEPT !.pc = "respond", !.stages = <<"existence">>,
                   !.outcome = Failure("PermissionDenied", "")]
    ELSE LET missing == Signature(c.name) \ DOMAIN c.args
         IN  IF missing # {}
             THEN [c EXCEPT !.pc = "respond",
                            !.stages = <<"existence", "schema">>,
                            !.outcome = Failure("InvalidArguments",
                                                CHOOSE f \in missing : TRUE)]
             ELSE [c EXCEPT !.pc = "handler", !.bound = c.args,
                            !.stages = <<"existence", "schema">>]

\* A dispatcher whose tool parameters have defaults: a missing argument is
\* filled in with 0 and the call goes on to the tool function.
call_tool_defaults(registry, c) ==
    IF c.name \notin registry
    THEN [c EXCEPT !.pc = "respond", !.stages = <<"existence">>,
                   !.outcome = Failure("CapabilityNotFound", "")]
    ELSE [c EXCEPT !.pc = "handler", !.stages = <<"existence", "schema">>,
                   !.bound = [f \in Signature(c.name) |->
                                IF f \in DOMAIN c.args THEN c.args[f] ELSE 0]]

\* FastMCP's call_tool up to the call of the tool function: the tool is
\* looked up by name in the registry, then the arguments of the message are
\* bound to the parameters of the function (its signature is the input
\* schema); c.bound is what the function is called with.
call_tool(registry, c) ==
    IF c.name \notin registry
    THEN [c EXCEPT !.pc = "respond", !.stages = <<"existence">>,
                   !.outcome = Failure("CapabilityNotFound", "")]
    ELSE LET missing == Signature(c.name) \ DOMAIN c.args
         IN  IF missing # {}
             THEN [c EXCEPT !.pc = "respond",
                            !.stages = <<"existence", "schema">>,
                            !.outcome = Failure("InvalidArguments",
                                                CHOOSE f \in missing : TRUE)]
             ELSE [c EXCEPT !.pc = "handler", !.bound = c.args,
                            !.stages = <<"existence", "schema">>]

\* A run loop that lets the exception of a tool function escape: the
\* session ends with the failed call.
SessionAfterCall_raise(sess, sid, outcome) ==
    IF outcome.kind \in {"PermissionDenied", "HandlerFailure"}
         /\ sess[sid] = "Active"
    THEN [sess EXCEPT ![sid] = "Closing"]
    ELSE sess

\* What the outcome of a tool function does to the session that called it:
\* nothing.  An exception raised by the function is caught by the tool
\* runner and becomes the error result of that call; mcp_server.run, awaited
\* by handle_sse, goes on serving the session.
SessionAfterCall(sess, sid, outcome) == sess

\* The tool function of call c runs in the context value ctx: in
\* combine_auth.py its first statement is check_permissions, whose ValueError
\* ends the call; then the body.  env is what search_web does.
tool_function(srv, ctx, table, c, env) ==
    LET chk == IF srv = "combine_auth"
               THEN check_permissions(ctx, table, c.name)
               ELSE "True"
        st  == IF srv = "combine_auth"
               THEN Append(c.stages, "authorization")
               ELSE c.stages
    IN  CASE chk = "LookupError" ->
               [c EXCEPT !.pc = "respond", !.stages = st,
                         !.outcome = Failure("HandlerFailure", "")]
          [] chk = "ValueError" ->
               [c EXCEPT !.pc = "respond", !.stages = st,
                         !.seen = ctx.auth_token,
                         !.outcome = Failure("PermissionDenied", "")]
          [] chk = "True" ->
               [c EXCEPT !.pc = "respond", !.stages = Append(st, "execution"),
                         !.seen = ctx.auth_token,
                         !.outcome = ToolBody(c.name, c.bound, env)]

\* get_docs awaits the network (search_web, fetch_url); the other tool
\* functions return without suspending.
Suspends(name) == name = "get_docs"

\* FastMCP's list_tools: the names in the registry, all of them.  It takes
\* no caller and reads no context.
list_tools(registry) == registry

\* A server that lists to a caller only the tools its token is permitted.
handle_request_filtered(srv, registry, ctx, table, c) ==
    IF c.method = "tools/list"
    THEN [c EXCEPT !.pc = "respond",
                   !.outcome = ListToolsResult(
                       {k \in list_tools(registry) :
                          srv = "combine_auth" =>
                            check_permissions(ctx, table, k) = "True"})]
    ELSE LET d == call_tool(registry, c)
         IN  IF d.pc = "handler" /\ ~Suspends(d.name)
             THEN tool_function(srv, ctx, table, d, 0)
             ELSE d

\* The handler of one request, up to its first suspension: tools/list
\* answers with list_tools; tools/call runs call_tool and, for a tool
\* function that does not suspend, the function.
handle_request(srv, registry, ctx, table, c) ==
    IF c.method = "tools/list"
    THEN [c EXCEPT !.pc = "respond",
                   !.outcome = ListToolsResult(list_tools(registry))]
    ELSE LET d == call_tool(registry, c)
         IN  IF d.pc = "handler" /\ ~Suspends(d.name)
             THEN tool_function(srv, ctx, table, d, 0)
             ELSE d

\* The session's run loop receives the next posted message and starts the
\* task that handles it.
Receive(s) ==
    /\ session[s] = "Active"
    /\ read_stream[s] # <<>>
    /\ read_stream' = [read_stream EXCEPT ![s] = Tail(@)]
    /\ LET x == Head(read_stream[s])
           r == handle_request(server, tools,
                               request_context[HandlerContext(x)],
                               API_KEY_PERMISSIONS, calls[x])
       IN  /\ calls' = [calls EXCEPT ![x] = r]
           /\ session' = SessionAfterCall(session, s, r.outcome)
    /\ UNCHANGED <<phase, server, tools, API_KEY_PERMISSIONS, nreq, http,
                   request_context, streams, write_stream>>

\* A suspended tool function is resumed and runs to its end.
Handler(c) ==
    /\ calls[c].pc = "handler"
    /\ \E env \in SearchOutcomes :
         calls' = [calls EXCEPT ![c] =
            tool_function(server, request_context[HandlerContext(c)],
                          API_KEY_PERMISSIONS, calls[c], env)]
    /\ session' = SessionAfterCall(session, calls[c].sid, calls'[c].outcome)
    /\ UNCHANGED <<phase, server, tools, API_KEY_PERMISSIONS, nreq, http,
                   request_context, streams, read_stream, write_stream>>

\* A write of the result that does not care whether the client is gone.
Respond_always(c) ==
    /\ calls[c].pc = "respond"
    /\ write_stream' = [write_stream EXCEPT ![calls[c].sid] =
           Append(@, [id |-> c, outcome |-> calls[c].outcome])]
    /\ calls' = [calls EXCEPT ![c].pc = "done"]
    /\ UNCHANGED <<phase, server, tools, API_KEY_PERMISSIONS, nreq, http,
                   request_context, session, streams, read_stream>>

\* A write of the result tagged with the id of the latest request received.
Respond_lastid(c) ==
    /\ calls[c].pc = "respond"
    /\ IF session[calls[c].sid] = "Active" /\ streams[calls[c].sid].write
       THEN /\ write_stream' = [write_stream EXCEPT ![calls[c].sid] =
                   Append(@, [id |-> nreq, outcome |-> calls[c].outcome])]
            /\ calls' = [calls EXCEPT ![c].pc = "done"]
       ELSE /\ calls' = [calls EXCEPT ![c].pc = "discarded"]
            /\ UNCHANGED write_stream
    /\ UNCHANGED <<phase, server, tools, API_KEY_PERMISSIONS, nreq, http,
                   request_context, session, streams, read_stream>>

\* The result is written to the session's write stream, tagged with the
\* id of the request; once the client is gone there is no stream to write to.
Respond(c) ==
    /\ calls[c].pc = "respond"
    /\ IF session[calls[c].sid] = "Active" /\ streams[calls[c].sid].write
       THEN /\ write_stream' = [write_stream EXCEPT ![calls[c].sid] =
                   Append(@, [id |-> c, outcome |-> calls[c].outcome])]
            /\ calls' = [calls EXCEPT ![c].pc = "done"]
       ELSE /\ calls' = [calls EXCEPT ![c].pc = "discarded"]
            /\ UNCHANGED write_stream
    /\ UNCHANGED <<phase, server, tools, API_KEY_PERMISSIONS, nreq, http,
                   request_context, session, streams, read_stream>>

-----------------------------------------------------------------------------
(* The end of a session *)

Unfinished == {"queued", "handler", "respond"}

\* The client disconnects (or asks to close): the event stream response ends.
Disconnect(s) ==
    /\ session[s] = "Active"
    /\ session' = [session EXCEPT ![s] = "Closing"]
    /\ UNCHANGED <<phase, server, tools, API_KEY_PERMISSIONS, nreq, http,
                   request_context, streams, read_stream, write_stream,
                   calls>>

\* handle_sse leaves the async with block: both streams are released and
\* what was still outstanding on the session is dropped.
Release(s) ==
    /\ session[s] = "Closing"
    /\ session' = [session EXCEPT ![s] = "Closed"]
    /\ streams' = [streams EXCEPT ![s] = [read |-> FALSE, write |-> FALSE]]
    /\ read_stream' = [read_stream EXCEPT ![s] = <<>>]
    /\ calls' = [c \in Ids |->
          IF calls[c].sid = s /\ calls[c].pc \in Unfinished
          THEN [calls[c] EXCEPT !.pc = "discarded"]
          ELSE calls[c]]
    /\ UNCHANGED <<phase, server, tools, API_KEY_PERMISSIONS, nreq, http,
                   request_context, write_stream>>

-----------------------------------------------------------------------------

Next ==
    \/ mcp_tool
    \/ uvicorn_run
    \/ \E h \in Headers(server) : Connect(h)
    \/ \E r \in Ids : Handshake(r)
    \/ \E p \in PostInputs(server), sid \in Ids :
          PostMessage(p[1], sid, p[2][1], p[2][2], p[2][3])
    \/ \E s \in Ids : Receive(s)
    \/ \E c \in Ids : Handler(c)
    \/ \E c \in Ids : Respond(c)
    \/ \E s \in Ids : Disconnect(s)
    \/ \E s \in Ids : Release(s)

Spec == Init /\ [][Next]_vars

\* The event loop runs a task whenever one is ready: a posted message to
\* receive, a suspended tool function to resume, a result to write.  It
\* promises no order among the ready tasks, and clients are under no
\* obligation to connect, post or disconnect.
Fairness ==
    WF_vars(\E x \in Ids : Receive(x) \/ Handler(x) \/ Respond(x))

FairSpec == Spec /\ Fairness

-----------------------------------------------------------------------------
(* The tool functions of combine_auth.py called on their own *)

\* Values of the ContextVar a tool function may find: none, or a token.
CheckContexts ==
    {Unbound} \cup
    { [bound |-> TRUE, auth_token |-> t] :
        t \in {<<"key1">>, <<"key2">>, <<"key3">>, <<"bad">>, NoToken} }

\* Contents of API_KEY_PERMISSIONS the check is evaluated against: the table
\* as written, one without the entry of key2, one where key2 has no
\* permission, and an empty one.
CheckTables ==
    { ConfiguredPermissions,
      (<<"key1">> :> {"add", "subtract"}) @@ (<<"key3">> :> {"subtract"}),
      (<<"key1">> :> {"add", "subtract"}) @@ (<<"key2">> :> {}) @@
        (<<"key3">> :> {"subtract"}),
      <<>> }

\* Two calls of add or subtract are about to enter their tool function,
\* each in a context of its own.
CheckInit ==
    /\ phase = "serving"
    /\ server = "combine_auth"
    /\ tools = {"add", "subtract"}
    /\ API_KEY_PERMISSIONS \in CheckTables
    /\ nreq = 0
    /\ http = [r \in Ids |-> NoRequest]
    /\ \E c1, c2 \in CheckContexts :
         request_context =
           [r \in Ids |-> IF r = 1 THEN c1 ELSE IF r = 2 THEN c2 ELSE Unbound]
    /\ session = [r \in Ids |-> "None"]
    /\ streams = [r \in Ids |-> NoStreams]
    /\ read_stream = [r \in Ids |-> <<>>]
    /\ write_stream = [r \in Ids |-> <<>>]
    /\ \E n1, n2 \in {"add", "subtract"} :
         calls = [r \in Ids |->
           IF r \in {1, 2}
           THEN [NoCall EXCEPT
                   !.sid = r, !.method = "tools/call",
                   !.name = IF r = 1 THEN n1 ELSE n2,
                   !.args = ("a" :> 2) @@ ("b" :> 1),
                   !.bound = ("a" :> 2) @@ ("b" :> 1),
                   !.pc = "handler", !.stages = <<"existence", "schema">>]
           ELSE NoCall]

\* One of the calls runs its tool function.
CheckNext == \E c \in Ids : Handler(c)

CheckSpec == CheckInit /\ [][CheckNext]_vars

-----------------------------------------------------------------------------
(* Vocabulary of the properties *)

key1 == <<"key1">>
key2 == <<"key2">>
key3 == <<"key3">>
Credentials == {key1, key2, key3}
Capabilities == {"add", "subtract", "multiply"}

\* The permission table as the specification states it.
Permitted(c, k) ==
    \/ c = key1 /\ k \in {"add", "subtract"}
    \/ c = key2 /\ k = "add"
    \/ c = key3 /\ k = "subtract"

\* The call of POST request x was accepted by a session.
Accepted(x) == calls[x].pc \in {"queued", "handler", "respond", "done", "discarded"}
\* Request x is a tools/call.
IsCall(x) == calls[x].method = "tools/call"
\* The dispatch of the tools/call x has produced its outcome.
HasOutcome(x) == IsCall(x) /\ calls[x].outcome.kind # "none"
\* The permission check has been evaluated for call x.
Checked(x) ==
    \E i \in 1..Len(calls[x].stages) : calls[x].stages[i] = "authorization"
\* The tool function's computation has run for call x.
Executed(x) ==
    \E i \in 1..Len(calls[x].stages) : calls[x].stages[i] = "execution"
\* The text of an Authorization header after the scheme prefix.
Remainder(h) == Tail(h.text)
\* Request r came with no usable bearer header.
NoBearer(r) ==
    \/ ~http[r].header.present
    \/ http[r].header.text = <<>>
    \/ http[r].header.text[1] # BearerPrefix
HasMiddleware == server \in {"combine_auth", "api_key"}
\* No session exists or ever existed for request r.
NoSession(r) ==
    /\ session[r] \in {"None", "Connecting", "Closed"}
    /\ ~streams[r].read /\ ~streams[r].write
    /\ ~request_context[r].bound
    /\ read_stream[r] = <<>> /\ write_stream[r] = <<>>
    /\ \A x \in Ids : calls[x].sid = r => ~Accepted(x)

-----------------------------------------------------------------------------
\* C1: for every configured credential c and capability name k the
\* permission check allows (c, k) exactly when k is in c's entry of the
\* configured table, in every state reached by any handshakes and calls; and
\* every check a call evaluated was decided as the table says.
C1_PermissionTable ==
    server = "combine_auth" =>
      /\ \A c \in Credentials, k \in Capabilities :
           (check_permissions([bound |-> TRUE, auth_token |-> c],
                              API_KEY_PERMISSIONS, k) = "True")
             <=> Permitted(c, k)
      /\ \A x \in Ids :
           Checked(x) =>
             /\ calls[x].seen \in Credentials
             /\ Executed(x) <=> Permitted(calls[x].seen, calls[x].name)
             /\ calls[x].outcome.kind = "PermissionDenied"
                  <=> ~Permitted(calls[x].seen, calls[x].name)

\* One session of key2 had subtract denied and add allowed.
C1_Witness ==
    \E x, y \in Ids :
      /\ calls[x].seen = key2 /\ calls[x].name = "subtract"
      /\ calls[x].outcome.kind = "PermissionDenied"
      /\ calls[y].seen = key2 /\ calls[y].name = "add" /\ Executed(y)

-----------------------------------------------------------------------------
\* C2: every call dispatched on a session is authorized with the credential
\* presented at that session's own handshake, never another session's,
\* whatever handshakes and message submissions happen in between.
HandshakeToken(s) == str_split(http[s].header.text, BearerPrefix)[2]

C2_SessionIsolation ==
    server = "combine_auth" =>
      /\ \A x \in Ids :
           Checked(x) => calls[x].seen = HandshakeToken(calls[x].sid)
      /\ \A s \in Ids :
           session[s] \in {"Active", "Closing", "Closed"} /\ http[s].next =>
             request_context[s] =
               [bound |-> TRUE, auth_token |-> HandshakeToken(s)]

\* Session s1 shook hands with another credential after a call was submitted
\* on session s2, both are active, and the call was checked.
C2_Witness ==
    /\ server = "combine_auth"
    /\ \E s1, s2, x \in Ids :
      /\ s2 < x /\ x < s1
      /\ session[s1] = "Active" /\ session[s2] = "Active"
      /\ HandshakeToken(s1) # HandshakeToken(s2)
      /\ calls[x].sid = s2 /\ Checked(x)

-----------------------------------------------------------------------------
\* C3: a handshake whose Authorization header is absent, empty or does not
\* start with "Bearer " is answered 401 {"error": "Unauthorized"}; call_next
\* is never invoked for it, no session is created and nothing is looked up
\* or run on its behalf.
C3_UnauthorizedHandshake ==
    HasMiddleware =>
      \A r \in Ids :
        http[r].route = "sse" /\ NoBearer(r) =>
          /\ ~http[r].next
          /\ NoSession(r)
          /\ session[r] = "Closed" =>
               http[r].status = 401 /\ http[r].body = "Unauthorized"
          /\ \A x \in Ids : calls[x].sid = r => calls[x].stages = <<>>

\* A handshake with no header and one with the Basic scheme were answered.
C3_Witness ==
    /\ HasMiddleware
    /\ \E r, q \in Ids :
         /\ http[r].route = "sse" /\ ~http[r].header.present
         /\ http[r].status = 401
         /\ http[q].route = "sse" /\ http[q].header.present
         /\ http[q].header.text # <<>> /\ NoBearer(q)
         /\ http[q].status = 401

-----------------------------------------------------------------------------
\* The credentials the running server is configured with.
ConfiguredCredential(t) ==
    IF server = "api_key" THEN t = key1 ELSE t \in Credentials

\* C4: for every Authorization header that starts with "Bearer " the token
\* the server authenticates is exactly the text after that prefix: the
\* handshake reaches Active, with that token bound, if and only if this
\* remainder is a configured credential; every other remainder is answered
\* 401 {"error": "Invalid API key"} and produces no session.
C4_TokenIsRemainder ==
    HasMiddleware =>
      \A r \in Ids :
        (/\ http[r].route = "sse"
         /\ ~NoBearer(r)
         /\ session[r] \notin {"None", "Connecting"}) =>
          IF ConfiguredCredential(Remainder(http[r].header))
          THEN /\ http[r].next
               /\ streams[r].read \/ session[r] = "Closed"
               /\ server = "combine_auth" =>
                    request_context[r].auth_token = Remainder(http[r].header)
          ELSE /\ http[r].status = 401
               /\ http[r].body = "Invalid API key"
               /\ NoSession(r)

-----------------------------------------------------------------------------
Registered == {"add", "subtract"}
\* The arguments of call x satisfy the input schema of add and subtract:
\* both a and b are given.
Required == {"a", "b"}
ValidArgs(x) == Required \subseteq DOMAIN calls[x].args
\* The credential of the session call x was submitted on.
Credential(x) == HandshakeToken(calls[x].sid)

\* C5 as stated: an unregistered capability yields CapabilityNotFound
\* whatever the credential; a registered capability absent from the
\* credential's permission set yields PermissionDenied; with key1 both add
\* and subtract succeed.
C5_AsStated ==
    server = "combine_auth" =>
      \A x \in Ids :
        HasOutcome(x) =>
          /\ calls[x].name \notin Registered =>
               calls[x].outcome.kind = "CapabilityNotFound"
          /\ (calls[x].name \in Registered
                /\ ~Permitted(Credential(x), calls[x].name)) =>
               calls[x].outcome.kind = "PermissionDenied"
          /\ (calls[x].name \in Registered /\ Credential(x) = key1) =>
               calls[x].outcome.kind = "Success"

\* C5 (amended): an unregistered capability yields CapabilityNotFound
\* whatever the credential and the arguments; a registered capability never
\* yields CapabilityNotFound, and when the arguments satisfy its schema it
\* yields PermissionDenied if it is absent from the credential's permission
\* set; with key1 add and subtract with schema-valid arguments succeed.
C5_ExistenceBeforeAuthorization ==
    server = "combine_auth" =>
      \A x \in Ids :
        HasOutcome(x) =>
          /\ calls[x].name \notin Registered <=>
               calls[x].outcome.kind = "CapabilityNotFound"
          /\ (/\ calls[x].name \in Registered
              /\ ValidArgs(x)
              /\ ~Permitted(Credential(x), calls[x].name)) =>
               calls[x].outcome.kind = "PermissionDenied"
          /\ (/\ calls[x].name \in Registered
              /\ ValidArgs(x)
              /\ Credential(x) = key1) =>
               calls[x].outcome.kind = "Success"

\* On a session of key2, subtract was denied and multiply was not found.
C5_Witness ==
    /\ server = "combine_auth"
    /\ \E x, y \in Ids :
         /\ Accepted(x) /\ Credential(x) = key2
         /\ calls[x].name = "subtract"
         /\ calls[x].outcome.kind = "PermissionDenied"
         /\ Accepted(y) /\ Credential(y) = key2
         /\ calls[y].name = "multiply"
         /\ calls[y].outcome.kind = "CapabilityNotFound"

-----------------------------------------------------------------------------
StageOrder == <<"existence", "schema", "authorization", "execution">>
IsPrefix(p, q) == Len(p) <= Len(q) /\ SubSeq(q, 1, Len(p)) = p

\* C6: dispatch runs existence, schema validation, authorization, execution
\* in this order and the first failing stage decides the error kind: a call
\* to a registered capability with schema-violating arguments yields
\* InvalidArguments (naming a field) even when the credential is not
\* permitted; PermissionDenied comes only after existence and schema passed;
\* the computation runs only after all three earlier stages passed.
C6_StageOrder ==
    server = "combine_auth" =>
      \A x \in Ids :
        /\ IsPrefix(calls[x].stages, StageOrder)
        /\ Executed(x) => calls[x].stages = StageOrder
        /\ HasOutcome(x) =>
             /\ calls[x].outcome.kind =
                  CASE Len(calls[x].stages) = 1 -> "CapabilityNotFound"
                    [] Len(calls[x].stages) = 2 -> "InvalidArguments"
                    [] Len(calls[x].stages) = 3 -> "PermissionDenied"
                    [] Len(calls[x].stages) = 4 -> "Success"
             /\ (calls[x].name \in Registered /\ ~ValidArgs(x)) =>
                  /\ calls[x].outcome.kind = "InvalidArguments"
                  /\ calls[x].outcome.field \in
                       Required \ DOMAIN calls[x].args
             /\ calls[x].outcome.kind = "PermissionDenied" =>
                  calls[x].name \in Registered /\ ValidArgs(x)

\* A credential without permission for add called it without b and was
\* answered InvalidArguments.
C6_Witness ==
    /\ server = "combine_auth"
    /\ \E x \in Ids :
         /\ Accepted(x) /\ Credential(x) = key3
         /\ calls[x].name = "add" /\ ~ValidArgs(x)
         /\ calls[x].outcome.kind = "InvalidArguments"

-----------------------------------------------------------------------------
\* C7 as stated: for a registered capability k and a credential whose
\* permission set lacks k, the outcome of a call to k does not depend on
\* whether the arguments satisfy k's schema: two such calls get the same
\* error kind, and no field name.
C7_AsStated ==
    server = "combine_auth" =>
      \A x, y \in Ids :
        (/\ HasOutcome(x) /\ HasOutcome(y)
         /\ calls[x].name \in Registered
         /\ calls[y].name = calls[x].name
         /\ Credential(x) = Credential(y)
         /\ ~Permitted(Credential(x), calls[x].name)) =>
          /\ calls[x].outcome.kind = calls[y].outcome.kind
          /\ calls[x].outcome.field = ""

\* C7 (amended): for a registered capability k and a credential whose
\* permission set lacks k, a call to k never succeeds and its computation
\* never runs; its outcome depends on the arguments only through their
\* validity: PermissionDenied with no field name when they satisfy the
\* schema, InvalidArguments naming a missing field when they do not.
C7_UnpermittedOutcome ==
    server = "combine_auth" =>
      \A x \in Ids :
        (/\ Accepted(x)
         /\ calls[x].name \in Registered
         /\ ~Permitted(Credential(x), calls[x].name)) =>
          /\ ~Executed(x)
          /\ HasOutcome(x) =>
               IF ValidArgs(x)
               THEN calls[x].outcome = Failure("PermissionDenied", "")
               ELSE /\ calls[x].outcome.kind = "InvalidArguments"
                    /\ calls[x].outcome.field \in
                         Required \ DOMAIN calls[x].args

\* key3 called add twice, once with and once without b: the answers differ.
C7_Witness ==
    /\ server = "combine_auth"
    /\ \E x, y \in Ids :
         /\ Accepted(x) /\ Accepted(y)
         /\ Credential(x) = key3 /\ Credential(y) = key3
         /\ calls[x].name = "add" /\ calls[y].name = "add"
         /\ calls[x].outcome.kind = "PermissionDenied"
         /\ calls[y].outcome.kind = "InvalidArguments"

-----------------------------------------------------------------------------
ErrorKinds ==
    {"CapabilityNotFound", "InvalidArguments", "PermissionDenied",
     "HandlerFailure"}
\* The envelopes delivered on session s that carry correlation id x.
Delivered(s, x) == {i \in 1..Len(write_stream[s]) : write_stream[s][i].id = x}

\* C8: a dispatch error never terminates the session.  A step in which a
\* call gets an error outcome, or in which an error result is delivered,
\* changes no session's state and no other call; and on an Active session
\* every posted call can be received, every started one can run and every
\* finished one can be answered, whatever errors came before.
C8_ErrorKeepsSession ==
    /\ [][\A x \in Ids :
            (/\ calls'[x].outcome # calls[x].outcome
             /\ calls'[x].outcome.kind \in ErrorKinds) =>
              /\ session' = session
              /\ streams' = streams
              /\ \A y \in Ids \ {x} : calls'[y] = calls[y]]_vars
    /\ [][\A s \in Ids :
            (/\ Len(write_stream'[s]) > Len(write_stream[s])
             /\ write_stream'[s][Len(write_stream'[s])].outcome.kind
                  \in ErrorKinds) =>
              session'[s] = "Active" /\ session' = session]_vars
    /\ [](\A s \in Ids :
            session[s] = "Active" =>
              /\ read_stream[s] # <<>> => ENABLED Receive(s)
              /\ \A x \in Ids :
                   calls[x].sid = s =>
                     /\ calls[x].pc = "handler" => ENABLED Handler(x)
                     /\ calls[x].pc = "respond" => ENABLED Respond(x))

\* On an Active session the answer to a call whose handler raised is
\* followed by the successful answer to a later call.
C8_Witness ==
    \E s \in Ids :
      /\ session[s] = "Active"
      /\ Len(write_stream[s]) = 2
      /\ write_stream[s][1].outcome.kind = "HandlerFailure"
      /\ write_stream[s][2].outcome.kind = "Success"
      /\ write_stream[s][1].id < write_stream[s][2].id

-----------------------------------------------------------------------------
\* C9: once a session has been closed nothing is delivered on it: no step
\* taken while the session is Closing or Closed extends its outbound stream,
\* a call that was outstanding at the close has no result envelope even if
\* its handler finished afterwards, and a Closed session holds neither
\* stream nor any outstanding call.
C9_NoDeliveryAfterClose ==
    /\ [][\A s \in Ids :
            session[s] \in {"Closing", "Closed"} =>
              write_stream'[s] = write_stream[s]]_vars
    /\ [](\A x \in Ids :
            calls[x].pc = "discarded" => Delivered(calls[x].sid, x) = {})
    /\ [](\A s \in Ids :
            session[s] = "Closed" =>
              /\ ~streams[s].read /\ ~streams[s].write
              /\ read_stream[s] = <<>>
              /\ \A x \in Ids :
                   calls[x].sid = s => calls[x].pc \notin Unfinished)

\* A session is Closed; a call that was outstanding when the client left
\* finished afterwards with an outcome that was never delivered.
C9_Witness ==
    \E x \in Ids :
      /\ calls[x].pc = "discarded"
      /\ HasOutcome(x)
      /\ session[calls[x].sid] = "Closed"
      /\ write_stream[calls[x].sid] = <<>>

-----------------------------------------------------------------------------
\* The state of the session call x was submitted on.
SessionOf(x) == IF calls[x].sid \in Ids THEN session[calls[x].sid] ELSE "None"

\* C10 as stated: every call accepted by an Active session produces exactly
\* one result envelope with its correlation id, never zero: a call that has
\* come to its end has exactly one envelope on its session's outbound stream.
C10_AsStated ==
    \A x \in Ids :
      calls[x].pc \in {"done", "discarded"} =>
        Cardinality(Delivered(calls[x].sid, x)) = 1

\* A call that was accepted, has not come to its end, and whose session is
\* still Active.  A call never returns to an earlier position and a session
\* never returns to Active, so a call that stops being pending stays so.
Pending(x) == calls[x].pc \in Unfinished /\ SessionOf(x) = "Active"

\* C10 (amended): every call accepted by an Active session eventually
\* produces exactly one result envelope with its correlation id on that
\* session's outbound stream unless the session leaves Active first, in
\* which case it produces none; never two, and never an envelope with the
\* id or the outcome of another call, also with several calls in flight.
\* "Eventually": whenever calls are pending, a state follows in which none
\* is, and by the second conjunct each of them is then answered exactly once
\* or its session is no longer Active.
C10_RoundTrip ==
    /\ [](\A s \in Ids :
            \A i \in 1..Len(write_stream[s]) :
              LET e == write_stream[s][i]
              IN  /\ e.id \in Ids
                  /\ calls[e.id].sid = s
                  /\ calls[e.id].pc = "done"
                  /\ e.outcome = calls[e.id].outcome
                  /\ Delivered(s, e.id) = {i})
    /\ [](\A x \in Ids :
            /\ calls[x].pc = "done" =>
                 Cardinality(Delivered(calls[x].sid, x)) = 1
            /\ calls[x].pc = "discarded" =>
                 /\ Delivered(calls[x].sid, x) = {}
                 /\ session[calls[x].sid] # "Active")
    /\ []<>(\A x \in Ids : ~Pending(x))

\* Two calls were in flight together on one session and each got its own
\* envelope, the later call answered first.
C10_Witness ==
    \E s \in Ids :
      /\ session[s] = "Active"
      /\ Len(write_stream[s]) = 2
      /\ write_stream[s][1].id > write_stream[s][2].id
      /\ calls[write_stream[s][1].id].pc = "done"
      /\ calls[write_stream[s][2].id].pc = "done"

-----------------------------------------------------------------------------
\* The moves of a session's state; "None" is a session that does not exist
\* yet, and a GET /sse request creates it as Connecting.
SessionMoves ==
    { <<"None", "Connecting">>, <<"Connecting", "Active">>,
      <<"Connecting", "Closed">>, <<"Active", "Closing">>,
      <<"Closing", "Closed">> }

\* The handshake of session s was authenticated: its header has the scheme
\* prefix, the middleware took a configured credential from it and called
\* call_next.
Authenticated(s) ==
    /\ ~NoBearer(s)
    /\ ConfiguredCredential(HandshakeToken(s))
    /\ http[s].next /\ http[s].status = 200

\* In this step call x is dispatched: it is taken from its session's read
\* stream and handed to call_tool.
Dispatched(x) ==
    calls[x].pc = "queued" /\ calls'[x].pc \notin {"queued", "discarded"}

\* C11: a session's state moves only Connecting -> Active (the handshake
\* succeeds), Connecting -> Closed (it fails, answered 401), Active -> Active
\* (a call is dispatched), Active -> Closing and Closing -> Closed; no step
\* leaves Closed; on the servers with the middleware a session is Active,
\* Closing or Closed-after-Active only with an authenticated handshake; and
\* a call is dispatched only on a session that is Active before and after.
C11_Lifecycle ==
    /\ [][\A s \in Ids :
            /\ session'[s] # session[s] =>
                 <<session[s], session'[s]>> \in SessionMoves
            /\ session[s] = "Closed" => session'[s] = "Closed"
            /\ (session[s] = "Connecting" /\ session'[s] = "Closed") =>
                 ~http'[s].next /\ http'[s].status = 401]_vars
    /\ [](HasMiddleware =>
            \A s \in Ids :
              (\/ session[s] \in {"Active", "Closing"}
               \/ streams[s].read \/ streams[s].write
               \/ http[s].route = "sse" /\ http[s].next) => Authenticated(s))
    /\ [][\A x \in Ids :
            Dispatched(x) =>
              /\ session[calls[x].sid] = "Active"
              /\ session'[calls[x].sid] = "Active"]_vars

\* One session went Connecting, Active (a call was dispatched), Closing,
\* Closed, and the handshake of another one failed.
C11_Witness ==
    \E s, r, x \in Ids :
      /\ session[s] = "Closed" /\ http[s].next
      /\ calls[x].sid = s /\ HasOutcome(x)
      /\ session[r] = "Closed" /\ http[r].status = 401

-----------------------------------------------------------------------------
\* An AuthorizationContext is a value {"auth_token": token} of the ContextVar;
\* request r holds one when the variable is bound in r's context.
HasContext(r) == request_context[r].bound
\* Request r is a session that was established.
Established(r) ==
    http[r].route = "sse" /\ session[r] \in {"Active", "Closing", "Closed"}
\* In this step the permission check of call x reads a context.
ChecksNow(x) == ~Checked(x) /\ Checked(x)'

\* C12: in every reachable state each Active session has exactly one
\* AuthorizationContext and no context belongs to two sessions (the calls of
\* two sessions never read the same one); a context is created only at a
\* successful handshake; and after its session is Closed a context is not
\* changed, not read by any call and not the context of any other session.
C12_OneContextPerSession ==
    /\ [](server = "combine_auth" =>
            /\ \A s \in Ids : session[s] = "Active" => HasContext(s)
            /\ \A x, y \in Ids :
                 (Accepted(x) /\ Accepted(y) /\ calls[x].sid # calls[y].sid)
                   => HandlerContext(x) # HandlerContext(y)
            /\ \A r \in Ids : HasContext(r) => Established(r))
    /\ [][server = "combine_auth" =>
            /\ \A r \in Ids :
                 (HasContext(r)' /\ ~HasContext(r)) =>
                   session[r] = "Connecting" /\ session'[r] = "Active"
            /\ \A s \in Ids :
                 session[s] = "Closed" =>
                   /\ request_context'[s] = request_context[s]
                   /\ \A x \in Ids :
                        ChecksNow(x) => HandlerContext(x) # s]_vars

-----------------------------------------------------------------------------
\* Request x is a tools/list that has been answered.
Listed(x) == calls[x].method = "tools/list" /\ calls[x].outcome.kind # "none"

\* C13: the listing is not filtered by permission.  Every tools/list
\* answered on an authenticated session, whatever its credential, is a
\* success showing the whole registry, add and subtract, and no permission
\* check is evaluated for it; the permission set decides only the calls: on
\* the same session a listed tool called with valid arguments succeeds
\* exactly when the credential is permitted it, and is denied otherwise.
C13_ListingUnfiltered ==
    server = "combine_auth" =>
      \A x \in Ids :
        Listed(x) =>
          /\ Credential(x) \in Credentials
          /\ calls[x].outcome = ListToolsResult(Registered)
          /\ calls[x].outcome.tools = tools
          /\ ~Checked(x) /\ calls[x].seen = NoToken
          /\ \A y \in Ids :
               (/\ HasOutcome(y) /\ calls[y].sid = calls[x].sid
                /\ calls[y].name \in calls[x].outcome.tools
                /\ ValidArgs(y)) =>
                 calls[y].outcome.kind =
                   IF Permitted(Credential(y), calls[y].name)
                   THEN "Success" ELSE "PermissionDenied"

\* A session of key2, permitted only add, was shown add and subtract, and
\* its call of subtract was denied.
C13_Witness ==
    /\ server = "combine_auth"
    /\ \E x, y \in Ids :
         /\ Listed(x) /\ Credential(x) = key2
         /\ Delivered(calls[x].sid, x) # {}
         /\ "subtract" \in write_stream[calls[x].sid][1].outcome.tools
         /\ calls[y].sid = calls[x].sid /\ calls[y].name = "subtract"
         /\ calls[y].outcome.kind = "PermissionDenied"

-----------------------------------------------------------------------------
\* The tools the running script declares.
AllDeclared == {DeclaredTools(server)[i] : i \in 1..Len(DeclaredTools(server))}
\* The registry and the permission table are complete.
FullyBuilt ==
    /\ tools = AllDeclared
    /\ server = "combine_auth" =>
         /\ DOMAIN API_KEY_PERMISSIONS = Credentials
         /\ \A c \in Credentials :
              API_KEY_PERMISSIONS[c] = {k \in Capabilities : Permitted(c, k)}

\* C14: the capability registry and the permission table are fully built
\* before the first connection is accepted, and no serving-time step (a
\* handshake accepted or rejected, a message submission, a dispatch, a
\* failing handler, a delivery, a close) adds, removes or alters a
\* registered capability or a table entry.
C14_BuiltBeforeServing ==
    /\ []((phase = "serving" \/ nreq > 0) => FullyBuilt)
    /\ [](nreq > 0 => phase = "serving")
    /\ [][phase = "serving" =>
            /\ phase' = "serving"
            /\ tools' = tools
            /\ API_KEY_PERMISSIONS' = API_KEY_PERMISSIONS]_vars
    /\ [][nreq' # nreq => FullyBuilt /\ FullyBuilt']_vars

\* With the registry and the table intact, one handshake was rejected, one
\* session was established, had a call fail in its handler, and was closed.
C14_Witness ==
    /\ server = "combine_auth" /\ FullyBuilt
    /\ \E s, r, x \in Ids :
         /\ session[s] = "Closed" /\ http[s].next
         /\ session[r] = "Closed" /\ http[r].status = 401
         /\ calls[x].sid = s /\ calls[x].outcome.kind = "PermissionDenied"

-----------------------------------------------------------------------------
\* The token the middleware took from the POST request that carried call x.
PostToken(x) == request_context[x].auth_token
\* The permission decision taken for call x.
Decision(x) ==
    IF Executed(x) THEN "Allowed"
    ELSE IF calls[x].outcome.kind = "PermissionDenied" THEN "Denied"
    ELSE "None"

\* C15: the permission decision for a call depends only on the token of the
\* handshake of the session the call is addressed to, not on the token sent
\* with the message: every decision is the table's answer for the handshake
\* token, and two calls of the same tool with the same arguments on the same
\* session get the same decision and the same outcome whichever valid
\* tokens accompanied their POSTs.
C15_DecisionBySessionToken ==
    server = "combine_auth" =>
      /\ \A x \in Ids :
           Checked(x) =>
             Decision(x) = IF Permitted(Credential(x), calls[x].name)
                           THEN "Allowed" ELSE "Denied"
      /\ \A x, y \in Ids :
           (/\ HasOutcome(x) /\ HasOutcome(y)
            /\ calls[x].sid = calls[y].sid
            /\ calls[x].name = calls[y].name
            /\ calls[x].args = calls[y].args) =>
             /\ Decision(x) = Decision(y)
             /\ calls[x].outcome = calls[y].outcome

\* On one session subtract was posted twice, once with key2 (not permitted
\* subtract) and once with key3 (permitted), and both were decided.
C15_Witness ==
    /\ server = "combine_auth"
    /\ \E x, y \in Ids :
         /\ calls[x].sid = calls[y].sid
         /\ calls[x].name = "subtract" /\ calls[y].name = "subtract"
         /\ PostToken(x) = key2 /\ PostToken(y) = key3
         /\ Decision(x) # "None" /\ Decision(y) = Decision(x)

-----------------------------------------------------------------------------
\* POST request r came with no Authorization header, with another scheme, or
\* with a token, the text after the scheme prefix, that is not configured.
BadCredentials(r) ==
    NoBearer(r) \/ ~ConfiguredCredential(Remainder(http[r].header))

\* C16: the middleware guards the message endpoint as it guards the
\* handshake: a POST with no Authorization header, a wrong scheme or an
\* unconfigured token is answered 401, call_next is not invoked, and its
\* message is never enqueued to a session, dispatched or answered, also when
\* it addresses an Active session.
C16_EveryRouteGuarded ==
    HasMiddleware =>
      \A r \in Ids :
        (http[r].route = "post" /\ BadCredentials(r)) =>
          /\ http[r].status = 401 /\ ~http[r].next
          /\ http[r].body =
               IF NoBearer(r) THEN "Unauthorized" ELSE "Invalid API key"
          /\ ~request_context[r].bound
          /\ ~Accepted(r)
          /\ calls[r].stages = <<>> /\ calls[r].outcome = NoOutcome
          /\ \A s \in Ids :
               /\ \A i \in 1..Len(read_stream[s]) : read_stream[s][i] # r
               /\ Delivered(s, r) = {}

-----------------------------------------------------------------------------
\* The context of call x is bound and its token has an entry in the
\* permission table that contains the tool's name.
Entitled(x) ==
    /\ request_context[calls[x].sid].bound
    /\ \E t \in DOMAIN API_KEY_PERMISSIONS :
         /\ t = request_context[calls[x].sid].auth_token
         /\ calls[x].name \in API_KEY_PERMISSIONS[t]

\* C17: the permission check fails closed.  check_permissions returns True
\* only when a context is bound and its token has a table entry containing
\* the tool name; with no context bound, or a token with no entry, it raises,
\* the call fails and the tool's computation is never executed.
C17_FailsClosed ==
    \A x \in Ids :
      calls[x].pc \in {"handler", "respond"} =>
        /\ (check_permissions(request_context[calls[x].sid],
                              API_KEY_PERMISSIONS, calls[x].name) = "True")
             <=> Entitled(x)
        /\ calls[x].pc = "respond" =>
             /\ Executed(x) <=> Entitled(x)
             /\ calls[x].outcome.kind = "Success" <=> Entitled(x)
             /\ ~request_context[calls[x].sid].bound =>
                  calls[x].outcome.kind = "HandlerFailure"
             /\ (request_context[calls[x].sid].bound /\ ~Entitled(x)) =>
                  calls[x].outcome.kind = "PermissionDenied"

\* One call ran with no context bound and one with a token that has no
\* entry in the table; both failed without executing.
C17_Witness ==
    /\ calls[1].pc = "respond" /\ calls[2].pc = "respond"
    /\ ~request_context[1].bound
    /\ calls[1].outcome.kind = "HandlerFailure" /\ ~Executed(1)
    /\ request_context[2].bound
    /\ request_context[2].auth_token \notin DOMAIN API_KEY_PERMISSIONS
    /\ calls[2].outcome.kind = "PermissionDenied" /\ ~Executed(2)

====
